---------------------------- MODULE Spec2Model ----------------------------
(***************************************************************************)
(* WorldVox: the visibility and level-of-detail pipeline of the voxel      *)
(* renderer (src/src/voxel.rs, src/src/render/billboard.rs,                *)
(* src/src/render/culling.rs).                                             *)
(*                                                                         *)
(* Numbers.  A Vec3 component (f32) is an integer count of 1/FracDenom     *)
(* units, so truncation to i32 (`as i32`) is a real conversion.  World     *)
(* positions of cameras and chunk transforms are whole units.  Distances  *)
(* are compared by their squares (all values are small integers, for      *)
(* which the f32 square root is monotone and exact on perfect squares).    *)
(* The chunk radius CHUNK_SIZE * 0.866 is kept in thousandths.             *)
(***************************************************************************)
EXTENDS Integers, Sequences, FiniteSets, TLC

VARIABLES
    chunks,        \* the VoxelChunk entities, in spawn order
    cameras,       \* the Camera entities of the world
    settings,      \* Res<VoxelRenderSettings>
    lod_settings,  \* Res<LodSettings>.distances (the thresholds)
    billboards,    \* the entities carrying BillboardMarker
    commands,      \* update_billboards' Commands queue, applied at the end of Update
    pending,       \* the Update systems that have not run yet in this frame
    phase,         \* "idle" between frames, "update" inside the Update schedule
    frame,         \* parity of the frame counter; tags the billboards a frame spawns
    panicked,      \* a system panicked: the app has aborted
    loaded,        \* per chunk: the voxel list it was constructed from
    filterInput,   \* per chunk: its voxel list before the latest filter call
    filterCalls,   \* per chunk: filter calls since it was loaded (counted up to MaxFilterCalls)
    filtered,      \* the chunks apply_occlusion_culling has filtered in this frame
    contentChanged, \* the chunks whose voxels were inserted, removed or loaded in this frame
    cameraSeen,    \* some frame so far had a camera entity
    debugWas       \* settings.debug_mode as the previous frame had it (where tracked)

vars == <<chunks, cameras, settings, lod_settings, billboards, commands,
          pending, phase, frame, panicked, loaded, filterInput, filterCalls,
          filtered, contentChanged, cameraSeen, debugWas>>

---------------------------------------------------------------------------
(* Bounds of the model *)

\* f32 positions are multiples of 1/FracDenom
FracDenom == 2
\* largest solid cube side tried by the filter harness
MaxCubeN == 4
\* how often the harness calls the filter on one chunk
MaxFilterCalls == 2
\* chunk entities in the world of the frame machine
NumChunks == 1
\* bits of the signed integer that stands for i32: the f32 values beyond its
\* range, which the cast saturates, stay small
IntWidth == 8

(* Program constants *)

CHUNK_SIZE == 16

---------------------------------------------------------------------------
(* Vec3 / LocalPos *)

Abs(n) == IF n < 0 THEN -n ELSE n

\* i32::MAX and i32::MIN
I32_MAX == 2^(IntWidth - 1) - 1
I32_MIN == -(2^(IntWidth - 1))

\* f32 -> i32 cast: rounds toward zero and saturates at the ends of the range
as_i32(f) ==
    LET t == IF f >= 0 THEN f \div FracDenom ELSE -((-f) \div FracDenom)
    IN  IF t > I32_MAX THEN I32_MAX ELSE IF t < I32_MIN THEN I32_MIN ELSE t

\* a + d on i32 overflows
add_overflows(a, d) == a + d > I32_MAX \/ a + d < I32_MIN

\* a + d on i32 where overflow is not checked: the sum wraps around
wrapping_add(a, d) ==
    IF a + d > I32_MAX THEN a + d - 2^IntWidth
    ELSE IF a + d < I32_MIN THEN a + d + 2^IntWidth
    ELSE a + d

\* a whole number as f32
as_f32(n) == n * FracDenom

LocalPos_new(x, y, z) == [x |-> x, y |-> y, z |-> z]

from_vec3(vec) == LocalPos_new(as_i32(vec[1]), as_i32(vec[2]), as_i32(vec[3]))

Voxel(position, color) == [position |-> position, color |-> color]

---------------------------------------------------------------------------
(* VoxelChunk *)

\* the GlobalTransform component is absent from an entity
NoTransform == "none"

\* VoxelChunk::new, spawned on an entity whose GlobalTransform is `transform`
\* (NoTransform when the entity has none).  `changed` is the component's
\* change flag as seen by apply_occlusion_culling: set when the component was
\* added or mutably dereferenced since that system last ran.
VoxelChunk_new(position, voxels, transform) ==
    [ position  |-> position,
      voxels    |-> voxels,
      bounds    |-> [ min |-> [i \in 1..3 |-> position[i] * CHUNK_SIZE],
                      max |-> [i \in 1..3 |-> position[i] * CHUNK_SIZE + CHUNK_SIZE] ],
      visible   |-> TRUE,
      lod_level |-> 0,
      transform |-> transform,
      changed   |-> TRUE ]

\* the six neighbours, in the order of the array in the source (as computed
\* when the additions are not checked for overflow)
adjacent_positions(pos) ==
    << LocalPos_new(wrapping_add(pos.x, 1), pos.y, pos.z),
       LocalPos_new(wrapping_add(pos.x, -1), pos.y, pos.z),
       LocalPos_new(pos.x, wrapping_add(pos.y, 1), pos.z),
       LocalPos_new(pos.x, wrapping_add(pos.y, -1), pos.z),
       LocalPos_new(pos.x, pos.y, wrapping_add(pos.z, 1)),
       LocalPos_new(pos.x, pos.y, wrapping_add(pos.z, -1)) >>

\* one of the six additions for pos overflows
adjacent_overflows(pos) ==
    \E d \in {1, -1} :
        add_overflows(pos.x, d) \/ add_overflows(pos.y, d) \/ add_overflows(pos.z, d)

\* mutant of outside_chunk: the upper bound is off by one
outside_chunk_upper_off(adj_pos) ==
    \/ adj_pos.x < 0 \/ adj_pos.x > CHUNK_SIZE
    \/ adj_pos.y < 0 \/ adj_pos.y > CHUNK_SIZE
    \/ adj_pos.z < 0 \/ adj_pos.z > CHUNK_SIZE

outside_chunk(adj_pos) ==
    \/ adj_pos.x < 0 \/ adj_pos.x >= CHUNK_SIZE
    \/ adj_pos.y < 0 \/ adj_pos.y >= CHUNK_SIZE
    \/ adj_pos.z < 0 \/ adj_pos.z >= CHUNK_SIZE

\* the HashSet<LocalPos> of the voxel list
position_set_of(voxels) == { from_vec3(voxels[i].position) : i \in 1..Len(voxels) }

\* mutant of has_exposed_face: the Back neighbour (z - 1) is not looked at
has_exposed_face_no_back(voxel, position_set) ==
    LET adj == adjacent_positions(from_vec3(voxel.position))
    IN  \E k \in 1..5 : outside_chunk(adj[k]) \/ adj[k] \notin position_set

\* the closure given to retain
has_exposed_face(voxel, position_set) ==
    LET adj == adjacent_positions(from_vec3(voxel.position))
    IN  \E k \in 1..Len(adj) : outside_chunk(adj[k]) \/ adj[k] \notin position_set

\* mutant of filter_occluded_voxels: retain is given the negated test
filter_occluded_voxels_inverted(voxels) ==
    LET position_set == position_set_of(voxels)
        drop(voxel) == ~has_exposed_face(voxel, position_set)
    IN  SelectSeq(voxels, drop)

\* mutant of filter_occluded_voxels: the kept voxels are pushed onto the
\* list instead of replacing it
filter_occluded_voxels_appending(voxels) ==
    LET position_set == position_set_of(voxels)
        keep(voxel) == has_exposed_face(voxel, position_set)
    IN  voxels \o SelectSeq(voxels, keep)

\* mutant of filter_occluded_voxels: the kept voxels come out in reverse
\* order (as a removal by swapping would reorder them)
filter_occluded_voxels_reordering(voxels) ==
    LET position_set == position_set_of(voxels)
        keep(voxel) == has_exposed_face(voxel, position_set)
        kept == SelectSeq(voxels, keep)
    IN  [i \in 1..Len(kept) |-> kept[Len(kept) + 1 - i]]

\* VoxelChunk::filter_occluded_voxels, on the voxel list
filter_occluded_voxels(voxels) ==
    LET position_set == position_set_of(voxels)
        keep(voxel) == has_exposed_face(voxel, position_set)
    IN  SelectSeq(voxels, keep)

\* filter_occluded_voxels panics on the list: the build checks arithmetic for
\* overflow (as the dev profile does) and the neighbours of some voxel
\* cannot be computed in i32
filter_panics(voxels, overflow_checks) ==
    /\ overflow_checks
    /\ \E i \in 1..Len(voxels) : adjacent_overflows(from_vec3(voxels[i].position))

---------------------------------------------------------------------------
(* render/culling.rs: the second filter_occluded_voxels, on a HashMap.  Its
   neighbour array and bounds test are the text of voxel.rs'. *)

\* mutant of culling_from_vec3: the coordinates are rounded to the nearest
\* integer (halves away from zero) before the cast
culling_from_vec3_rounding(vec) ==
    LET round(f) == IF f >= 0 THEN ((2 * f + FracDenom) \div (2 * FracDenom)) * FracDenom
                    ELSE -(((2 * (-f) + FracDenom) \div (2 * FracDenom)) * FracDenom)
    IN  LocalPos_new(as_i32(round(vec[1])), as_i32(round(vec[2])), as_i32(round(vec[3])))

\* culling.rs' own LocalPos::from_vec3
culling_from_vec3(vec) == LocalPos_new(as_i32(vec[1]), as_i32(vec[2]), as_i32(vec[3]))

\* The HashMap<LocalPos, &Voxel> collected from the voxel list: a later voxel
\* of a cell replaces an earlier one.
position_map_of(voxels) ==
    LET key(i) == culling_from_vec3(voxels[i].position)
    IN  [ k \in { key(i) : i \in 1..Len(voxels) } |->
            voxels[CHOOSE i \in 1..Len(voxels) :
                       key(i) = k /\ \A j \in (i + 1)..Len(voxels) : key(j) # k] ]

\* HashMap::contains_key
contains_key(map, k) == k \in DOMAIN map

\* the closure given to retain in culling.rs
culling_has_exposed_face(voxel, position_map) ==
    LET adj == adjacent_positions(culling_from_vec3(voxel.position))
    IN  \E k \in 1..Len(adj) : outside_chunk(adj[k]) \/ ~contains_key(position_map, adj[k])

\* filter_occluded_voxels of culling.rs, on the voxel list
culling_filter_occluded_voxels(voxels) ==
    LET position_map == position_map_of(voxels)
        keep(voxel) == culling_has_exposed_face(voxel, position_map)
    IN  SelectSeq(voxels, keep)

---------------------------------------------------------------------------
(* setup_voxel_scene: the solid cube *)

\* the colour gradient, reduced to three colour classes
gradient_color(x, y, z) == 1 + ((x + y + z) % 3)

\* the voxels pushed by the three nested loops (x outermost, z innermost) for
\* a cube of side n whose lowest corner is (o, o, o); the program has n = 15, o = 0
solid_cube(n, o) ==
    [ i \in 1..(n * n * n) |->
        LET x == o + ((i - 1) \div (n * n))
            y == o + (((i - 1) \div n) % n)
            z == o + ((i - 1) % n)
        IN  Voxel(<<as_f32(x), as_f32(y), as_f32(z)>>, gradient_color(x, y, z)) ]

SceneCubeSide == 15

---------------------------------------------------------------------------
(* Voxel lists given to the filter *)

\* A cross around (cx, 1, 1) in source order of the neighbours, then a second
\* voxel in the centre cell (fractional x), a second voxel in the Up cell, and
\* a voxel one fraction below the Left cell's lower x edge.
CrossPool(cx) ==
    << Voxel(<<as_f32(cx),     as_f32(1), as_f32(1)>>, 1),
       Voxel(<<as_f32(cx + 1), as_f32(1), as_f32(1)>>, 2),
       Voxel(<<as_f32(cx - 1), as_f32(1), as_f32(1)>>, 3),
       Voxel(<<as_f32(cx),     as_f32(2), as_f32(1)>>, 1),
       Voxel(<<as_f32(cx),     as_f32(0), as_f32(1)>>, 2),
       Voxel(<<as_f32(cx),     as_f32(1), as_f32(2)>>, 3),
       Voxel(<<as_f32(cx),     as_f32(1), as_f32(0)>>, 1),
       Voxel(<<as_f32(cx) + 1, as_f32(1), as_f32(1)>>, 2),
       Voxel(<<as_f32(cx),     as_f32(2) + 1, as_f32(1) + 1>>, 3),
       Voxel(<<as_f32(cx - 1) - 1, as_f32(1), as_f32(1)>>, 1) >>

\* the elements of seq whose index is in S, in order
Pick(seq, S) ==
    LET idx == [i \in 1..Len(seq) |-> i]
        in_S(i) == i \in S
        kept == SelectSeq(idx, in_S)
    IN  [k \in 1..Len(kept) |-> seq[kept[k]]]

Reverse(seq) == [i \in 1..Len(seq) |-> seq[Len(seq) + 1 - i]]

CrossLists ==
    { Pick(CrossPool(cx), S) :
        cx \in {0, 1, CHUNK_SIZE - 1}, S \in SUBSET (1..Len(CrossPool(1))) }

CubeLists ==
    { solid_cube(n, o) : n \in 1..MaxCubeN, o \in {0, 1, CHUNK_SIZE - MaxCubeN} }

FilterInputs ==
    CrossLists \cup { Reverse(l) : l \in CrossLists } \cup CubeLists
        \cup { solid_cube(SceneCubeSide, 0) }

---------------------------------------------------------------------------
(* The filter called on one chunk: VoxelChunk::new, then filter_occluded_voxels
   as often as MaxFilterCalls allows *)

Origin == <<0, 0, 0>>

\* VoxelRenderSettings::default
VoxelRenderSettings_default ==
    [ debug_mode |-> FALSE, voxel_size |-> 1, render_distance |-> 100,
      show_chunk_bounds |-> FALSE, show_diagnostics |-> TRUE ]

\* LodSettings::default: the thresholds of (0.0, 1.0), (50.0, 2.0), (100.0, 4.0)
LodSettings_default == << [threshold |-> 0, scale |-> 1],
                          [threshold |-> 50, scale |-> 2],
                          [threshold |-> 100, scale |-> 4] >>

NoCommands == [despawn |-> {}, spawn |-> {}]

InitFilter ==
    /\ \E voxels \in FilterInputs :
          chunks = << VoxelChunk_new(Origin, voxels, NoTransform) >>
    /\ cameras = <<>>
    /\ settings = VoxelRenderSettings_default
    /\ lod_settings = LodSettings_default
    /\ billboards = {}
    /\ commands = NoCommands
    /\ pending = {}
    /\ phase = "idle"
    /\ frame = 0
    /\ panicked = FALSE
    /\ loaded = [c \in DOMAIN chunks |-> chunks[c].voxels]
    /\ filterInput = [c \in DOMAIN chunks |-> chunks[c].voxels]
    /\ filterCalls = [c \in DOMAIN chunks |-> 0]
    /\ filtered = {}
    /\ contentChanged = DOMAIN chunks
    /\ cameraSeen = FALSE
    /\ debugWas = FALSE

\* chunk.filter_occluded_voxels() on chunk c, in a build with or without
\* overflow checks
FilterCall(c) ==
    /\ ~panicked
    /\ filterCalls[c] < MaxFilterCalls
    /\ \E overflow_checks \in BOOLEAN :
          IF filter_panics(chunks[c].voxels, overflow_checks)
          THEN /\ panicked' = TRUE
               /\ phase' = "aborted"
               /\ UNCHANGED <<chunks, filterInput, filterCalls>>
          ELSE /\ chunks' = [chunks EXCEPT ![c].voxels = filter_occluded_voxels(@)]
               /\ filterInput' = [filterInput EXCEPT ![c] = chunks[c].voxels]
               /\ filterCalls' = [filterCalls EXCEPT ![c] = @ + 1]
               /\ UNCHANGED <<phase, panicked>>
    /\ UNCHANGED <<cameras, settings, lod_settings, billboards, commands,
                   pending, frame, loaded, filtered, contentChanged, cameraSeen,
                   debugWas>>

NextFilter == \E c \in DOMAIN chunks : FilterCall(c)

SpecFilter == InitFilter /\ [][NextFilter]_vars

\* Voxels in and out of the range [0, CHUNK_SIZE), up to positions beyond the
\* range of i32
WidePool ==
    << Voxel(<<as_f32(-1), as_f32(1), as_f32(1)>>, 1),
       Voxel(<<as_f32(0), as_f32(1), as_f32(1)>>, 2),
       Voxel(<<as_f32(CHUNK_SIZE), as_f32(1), as_f32(1)>>, 3),
       Voxel(<<as_f32(CHUNK_SIZE - 1), as_f32(1), as_f32(1)>>, 1),
       Voxel(<<as_f32(1), as_f32(-2), as_f32(1)>>, 2),
       Voxel(<<as_f32(1), as_f32(1), as_f32(CHUNK_SIZE + 4)>>, 3),
       Voxel(<<as_f32(I32_MAX + 1), as_f32(1), as_f32(1)>>, 1),
       Voxel(<<as_f32(1), as_f32(I32_MIN), as_f32(1)>>, 2) >>

WideInputs == { Pick(WidePool, S) : S \in SUBSET (1..Len(WidePool)) }

InitFilterWide ==
    /\ \E voxels \in WideInputs :
          chunks = << VoxelChunk_new(Origin, voxels, NoTransform) >>
    /\ cameras = <<>>
    /\ settings = VoxelRenderSettings_default
    /\ lod_settings = LodSettings_default
    /\ billboards = {}
    /\ commands = NoCommands
    /\ pending = {}
    /\ phase = "idle"
    /\ frame = 0
    /\ panicked = FALSE
    /\ loaded = [c \in DOMAIN chunks |-> chunks[c].voxels]
    /\ filterInput = [c \in DOMAIN chunks |-> chunks[c].voxels]
    /\ filterCalls = [c \in DOMAIN chunks |-> 0]
    /\ filtered = {}
    /\ contentChanged = DOMAIN chunks
    /\ cameraSeen = FALSE
    /\ debugWas = FALSE

SpecFilterWide == InitFilterWide /\ [][NextFilter]_vars

---------------------------------------------------------------------------
(* Cameras and matrices.  A matrix is a sequence of rows. *)

Dot(a, b) == LET S[n \in 0..Len(a)] == IF n = 0 THEN 0 ELSE S[n - 1] + a[n] * b[n]
             IN  S[Len(a)]

Column(m, j) == [i \in 1..Len(m) |-> m[i][j]]

\* Mat4 * Mat4
MatMul(a, b) == [i \in 1..Len(a) |-> [j \in 1..Len(b[1]) |-> Dot(a[i], Column(b, j))]]

\* Mat4 * Vec4
MatVec(m, v) == [i \in 1..Len(m) |-> Dot(m[i], v)]

\* Vec3::extend
extend(v, w) == <<v[1], v[2], v[3], w>>

\* (a - b).length(), squared
length_squared(a, b) ==
    (a[1] - b[1]) * (a[1] - b[1]) + (a[2] - b[2]) * (a[2] - b[2])
        + (a[3] - b[3]) * (a[3] - b[3])

\* Camera rotations used: none, and half a turn about Y
RotIdentity == << <<1, 0, 0>>, <<0, 1, 0>>, <<0, 0, 1>> >>
RotHalfTurnY == << <<-1, 0, 0>>, <<0, 1, 0>>, <<0, 0, -1>> >>

\* Camera::projection_matrix of a perspective camera (infinite far plane,
\* reversed depth): x' = fx x, y' = fy y, z' = near w, w' = -z
perspective(fx, fy, near) ==
    << <<fx, 0, 0, 0>>, <<0, fy, 0, 0>>, <<0, 0, 0, near>>, <<0, 0, -1, 0>> >>

Camera(translation, rotation) ==
    [ translation |-> translation, rotation |-> rotation,
      projection |-> perspective(1, 2, 1) ]

\* GlobalTransform::compute_matrix
compute_matrix(cam) ==
    << Append(cam.rotation[1], cam.translation[1]),
       Append(cam.rotation[2], cam.translation[2]),
       Append(cam.rotation[3], cam.translation[3]),
       <<0, 0, 0, 1>> >>

\* the camera poses the frames draw from
CameraPoses ==
    { Camera(<<0, 0, 0>>, RotIdentity),
      Camera(<<0, 0, -10>>, RotIdentity),
      Camera(<<0, 0, 10>>, RotIdentity),
      Camera(<<0, 0, 75>>, RotHalfTurnY),
      Camera(<<30, 0, -40>>, RotIdentity),
      Camera(<<0, 0, -500>>, RotIdentity),
      Camera(<<1, 1, 1>>, RotIdentity) }

\* the camera entities of a frame: none, one in any pose, or two
CameraWorlds ==
    { <<>> } \cup { <<cam>> : cam \in CameraPoses }
        \cup { << Camera(<<0, 0, -10>>, RotIdentity), Camera(<<0, 0, 10>>, RotIdentity) >> }

---------------------------------------------------------------------------
(* The Update systems *)

Systems == {"update_chunk_visibility", "update_voxel_lod",
            "apply_occlusion_culling", "update_billboards"}

\* mutant of get_single: the first camera is taken when there are several
get_single_first(query) == IF Len(query) >= 1 THEN <<query[1]>> ELSE <<>>

\* Query::get_single: Ok (here a one-element sequence) for exactly one match
get_single(query) == IF Len(query) = 1 THEN <<query[1]>> ELSE <<>>

\* CHUNK_SIZE * 0.866, in thousandths
radius_milli == CHUNK_SIZE * 866

\* the frustum test on the clip-space position
in_frustum(p) ==
    /\ p[4] > 0
    /\ Abs(p[1]) * 1000 <= p[4] * 1000 + radius_milli
    /\ Abs(p[2]) * 1000 <= p[4] * 1000 + radius_milli
    /\ p[3] * 1000 >= -radius_milli

\* mutant of classify: the distance cull is left out
classify_frustum_only(chunk, cam, render_distance) ==
    LET view_projection == MatMul(cam.projection, compute_matrix(cam))
    IN  in_frustum(MatVec(view_projection, extend(chunk.transform, 1)))

\* the body of update_chunk_visibility's loop for one chunk
classify(chunk, cam, render_distance) ==
    LET view_projection == MatMul(cam.projection, compute_matrix(cam))
        chunk_center == chunk.transform
    IN  IF render_distance < 0
           \/ length_squared(chunk_center, cam.translation) > render_distance * render_distance
        THEN FALSE
        ELSE in_frustum(MatVec(view_projection, extend(chunk_center, 1)))

update_chunk_visibility ==
    /\ phase = "update"
    /\ "update_chunk_visibility" \in pending
    /\ pending' = pending \ {"update_chunk_visibility"}
    /\ LET camera == get_single(cameras)
       IN  chunks' =
             IF camera = <<>> THEN chunks
             ELSE [ c \in DOMAIN chunks |->
                      IF chunks[c].transform = NoTransform THEN chunks[c]
                      ELSE [ chunks[c] EXCEPT
                               !.visible = classify(chunks[c], camera[1],
                                                    settings.render_distance),
                               !.changed = TRUE ] ]
    /\ UNCHANGED <<cameras, settings, lod_settings, billboards, commands, phase,
                   frame, panicked, loaded, filterInput, filterCalls, filtered,
                   contentChanged, cameraSeen, debugWas>>

\* the positions (from 1) of the thresholds with distance <= threshold
matching_thresholds(distance_squared, distances) ==
    { i \in 1..Len(distances) :
        /\ distances[i].threshold >= 0
        /\ distance_squared <= distances[i].threshold * distances[i].threshold }

\* the first (lowest) position in a non-empty set of positions
First(matches) == CHOOSE i \in matches : \A j \in matches : i <= j

\* mutant of select_lod: without a match the level is reset to 0
select_lod_reset(chunk, distance_squared, distances) ==
    LET matches == matching_thresholds(distance_squared, distances)
    IN  IF matches = {} THEN [chunk EXCEPT !.lod_level = 0, !.changed = TRUE]
        ELSE [chunk EXCEPT !.lod_level = First(matches) - 1, !.changed = TRUE]

\* mutant of select_lod: the scan does not break, the last match wins
select_lod_last(chunk, distance_squared, distances) ==
    LET matches == matching_thresholds(distance_squared, distances)
    IN  IF matches = {} THEN chunk
        ELSE [chunk EXCEPT
                !.lod_level = (CHOOSE i \in matches : \A j \in matches : i >= j) - 1,
                !.changed = TRUE]

\* mutant of select_lod: the position is counted from 1
select_lod_one_based(chunk, distance_squared, distances) ==
    LET matches == matching_thresholds(distance_squared, distances)
    IN  IF matches = {} THEN chunk
        ELSE [chunk EXCEPT !.lod_level = First(matches), !.changed = TRUE]

\* mutant of select_lod: a chunk beyond every threshold is hidden
select_lod_hides(chunk, distance_squared, distances) ==
    LET matches == matching_thresholds(distance_squared, distances)
    IN  IF matches = {} THEN [chunk EXCEPT !.visible = FALSE, !.changed = TRUE]
        ELSE [chunk EXCEPT !.lod_level = First(matches) - 1, !.changed = TRUE]

\* The inner loop of update_voxel_lod on one chunk: lod_level becomes the
\* index (from 0, as enumerate gives it) of the first matching threshold and
\* the component is marked changed; without a match the chunk is not written.
select_lod(chunk, distance_squared, distances) ==
    LET matches == matching_thresholds(distance_squared, distances)
    IN  IF matches = {} THEN chunk
        ELSE [chunk EXCEPT !.lod_level = First(matches) - 1, !.changed = TRUE]

update_voxel_lod ==
    /\ phase = "update"
    /\ "update_voxel_lod" \in pending
    /\ pending' = pending \ {"update_voxel_lod"}
    /\ LET camera == get_single(cameras)
       IN  chunks' =
             IF camera = <<>> THEN chunks
             ELSE [ c \in DOMAIN chunks |->
                      IF chunks[c].transform = NoTransform THEN chunks[c]
                      ELSE select_lod(chunks[c],
                                      length_squared(chunks[c].transform,
                                                     camera[1].translation),
                                      lod_settings) ]
    /\ UNCHANGED <<cameras, settings, lod_settings, billboards, commands, phase,
                   frame, panicked, loaded, filterInput, filterCalls, filtered,
                   contentChanged, cameraSeen, debugWas>>

\* the Changed<VoxelChunk> filter of apply_occlusion_culling's query
is_changed(chunk) == chunk.changed

\* Every chunk the query yields is filtered.  Running resets what the system
\* sees as changed: its own writes are not newer than its own last run.
apply_occlusion_culling ==
    /\ phase = "update"
    /\ "apply_occlusion_culling" \in pending
    /\ pending' = pending \ {"apply_occlusion_culling"}
    /\ LET hit == { c \in DOMAIN chunks : is_changed(chunks[c]) }
       IN  \E overflow_checks \in BOOLEAN :
           IF \E c \in hit : filter_panics(chunks[c].voxels, overflow_checks)
           THEN /\ panicked' = TRUE
                /\ phase' = "aborted"
                /\ UNCHANGED <<chunks, filterInput, filterCalls, filtered>>
           ELSE /\ UNCHANGED <<phase, panicked>>
                /\ chunks' = [ c \in DOMAIN chunks |->
                                 [ chunks[c] EXCEPT
                                     !.voxels = IF c \in hit THEN filter_occluded_voxels(@)
                                                ELSE @,
                                     !.changed = FALSE ] ]
                /\ filterInput' = [ c \in DOMAIN chunks |->
                                      IF c \in hit THEN chunks[c].voxels ELSE filterInput[c] ]
                /\ filterCalls' = [ c \in DOMAIN chunks |->
                                      IF c \in hit /\ filterCalls[c] < MaxFilterCalls
                                      THEN filterCalls[c] + 1 ELSE filterCalls[c] ]
                /\ filtered' = filtered \cup hit
    /\ UNCHANGED <<cameras, settings, lod_settings, billboards, commands,
                   frame, loaded, contentChanged, cameraSeen, debugWas>>

\* world_pos of a voxel's billboard, in 1/FracDenom units
billboard_world_pos(chunk, voxel, voxel_size) ==
    [ i \in 1..3 |->
        as_f32(chunk.position[i]) * voxel_size + voxel.position[i] * voxel_size ]

\* Vec3::cross
Cross(a, b) ==
    << a[2] * b[3] - a[3] * b[2], a[3] * b[1] - a[1] * b[3], a[1] * b[2] - a[2] * b[1] >>

\* Transform::local_y: the rotation applied to Y
local_y(cam) == << cam.rotation[1][2], cam.rotation[2][2], cam.rotation[3][2] >>

\* The rotation given to a billboard, as far as it is a number: normalize()
\* of a zero vector is NaN, and NaN goes through cross, normalize and
\* Quat::from_mat3.  The vectors are kept unnormalised (same directions).
billboard_rotation(cam, world_pos) ==
    LET to_camera == [i \in 1..3 |-> cam.translation[i] * FracDenom - world_pos[i]]
        right == Cross(local_y(cam), [i \in 1..3 |-> -to_camera[i]])
    IN  IF to_camera = <<0, 0, 0>> \/ right = <<0, 0, 0>> THEN "NaN" ELSE "finite"

\* mutant of spawned_billboards: chunk.visible is not looked at
spawned_billboards_all_chunks ==
    UNION { { [ chunk       |-> c,
                index       |-> i,
                translation |-> billboard_world_pos(chunks[c], chunks[c].voxels[i],
                                                    settings.voxel_size),
                rotation    |-> billboard_rotation(cameras[1],
                                   billboard_world_pos(chunks[c], chunks[c].voxels[i],
                                                       settings.voxel_size)),
                color       |-> chunks[c].voxels[i].color,
                scale       |-> settings.voxel_size * 2,
                frame       |-> frame ] : i \in 1..Len(chunks[c].voxels) } :
            c \in DOMAIN chunks }

\* the entities update_billboards spawns: one per voxel of each visible chunk
spawned_billboards ==
    UNION { { [ chunk       |-> c,
                index       |-> i,
                translation |-> billboard_world_pos(chunks[c], chunks[c].voxels[i],
                                                    settings.voxel_size),
                rotation    |-> billboard_rotation(cameras[1],
                                   billboard_world_pos(chunks[c], chunks[c].voxels[i],
                                                       settings.voxel_size)),
                color       |-> chunks[c].voxels[i].color,
                scale       |-> settings.voxel_size * 2,
                frame       |-> frame ] : i \in 1..Len(chunks[c].voxels) } :
            c \in { k \in DOMAIN chunks : chunks[k].visible } }

\* mutant of old_billboards: the query matches nothing
old_billboards_none == {}

\* the old_billboards query: every entity carrying BillboardMarker
old_billboards == billboards

\* The despawns and spawns are queued; camera.single() panics unless there is
\* exactly one camera.  circle_texture is Some since setup_billboard_assets.
update_billboards ==
    /\ phase = "update"
    /\ "update_billboards" \in pending
    /\ pending' = pending \ {"update_billboards"}
    /\ IF settings.debug_mode
       THEN /\ commands' = [despawn |-> old_billboards, spawn |-> {}]
            /\ UNCHANGED <<phase, panicked>>
       ELSE IF Len(cameras) # 1
       THEN /\ panicked' = TRUE
            /\ phase' = "aborted"
            /\ UNCHANGED commands
       ELSE /\ commands' = [despawn |-> old_billboards, spawn |-> spawned_billboards]
            /\ UNCHANGED <<phase, panicked>>
    /\ UNCHANGED <<chunks, cameras, settings, lod_settings, billboards, frame,
                   loaded, filterInput, filterCalls, filtered, contentChanged,
                   cameraSeen, debugWas>>

---------------------------------------------------------------------------
(* Frames *)

\* The frame's inputs arrive: the camera entities and the debug flag are the
\* collaborators' to set; every Update system is due once.  (debugWas is set
\* by the step that takes this action.)
BeginFrame ==
    /\ phase = "idle"
    /\ cameras' \in CameraWorlds
    /\ \E debug \in BOOLEAN : settings' = [settings EXCEPT !.debug_mode = debug]
    /\ pending' = Systems
    /\ phase' = "update"
    /\ cameraSeen' = (cameraSeen \/ cameras' # <<>>)
    /\ UNCHANGED <<chunks, lod_settings, billboards, commands, frame, panicked,
                   loaded, filterInput, filterCalls, filtered, contentChanged>>

\* The end of Update: the queued commands are applied.  What the frame
\* filtered and what changed content in it are forgotten with the frame.
EndFrame ==
    /\ phase = "update"
    /\ pending = {}
    /\ billboards' = (billboards \ commands.despawn) \cup commands.spawn
    /\ commands' = NoCommands
    /\ phase' = "idle"
    /\ frame' = 1 - frame
    /\ filtered' = {}
    /\ contentChanged' = {}
    /\ UNCHANGED <<chunks, cameras, settings, lod_settings, pending, panicked,
                   loaded, filterInput, filterCalls, cameraSeen, debugWas>>

\* The voxel lists chunks are built from
SceneLists ==
    { <<>>,
      Pick(CrossPool(1), 1..7),
      Pick(CrossPool(1), {1, 8}) }

\* The threshold lists LodSettings is configured with
LodConfigs ==
    { LodSettings_default,
      <<>>,
      << [threshold |-> 100, scale |-> 4], [threshold |-> 50, scale |-> 2] >> }

\* setup_voxel_scene for one chunk: VoxelChunk::new, the filter, the spawn
setup_chunk(voxels, transform) ==
    [ VoxelChunk_new(Origin, voxels, transform) EXCEPT
        !.voxels = filter_occluded_voxels(voxels) ]

\* The world after Startup
Init ==
    /\ \E raw \in [1..NumChunks -> SceneLists],
          tr \in [1..NumChunks -> {NoTransform, Origin}] :
          /\ chunks = [c \in 1..NumChunks |-> setup_chunk(raw[c], tr[c])]
          /\ loaded = [c \in 1..NumChunks |-> raw[c]]
    /\ filterInput = loaded
    /\ filterCalls = [c \in DOMAIN chunks |-> 1]
    /\ filtered = {}
    /\ contentChanged = DOMAIN chunks
    /\ cameraSeen = FALSE
    /\ debugWas = FALSE
    /\ cameras = <<>>
    /\ settings = VoxelRenderSettings_default
    /\ lod_settings \in LodConfigs
    /\ billboards = {}
    /\ commands = NoCommands
    /\ pending = {}
    /\ phase = "idle"
    /\ frame = 0
    /\ panicked = FALSE

Next ==
    \/ BeginFrame /\ UNCHANGED debugWas
    \/ update_chunk_visibility
    \/ update_voxel_lod
    \/ apply_occlusion_culling
    \/ update_billboards
    \/ EndFrame

Spec == Init /\ [][Next]_vars

---------------------------------------------------------------------------
(* The frames of a scene whose chunks sit at grid positions other than the
   origin too, with the voxel size configured, and with the debug flag of
   the previous frame remembered *)

\* VoxelChunk::get_voxel_world_position, in 1/FracDenom units
get_voxel_world_position(chunk, voxel, voxel_size) ==
    [ i \in 1..3 |->
        (as_f32(chunk.position[i] * CHUNK_SIZE) + voxel.position[i]) * voxel_size ]

\* a chunk entity: its grid position and its GlobalTransform, if it has one
GridPlacements ==
    { [position |-> Origin, transform |-> NoTransform],
      [position |-> <<1, 0, -1>>, transform |-> <<CHUNK_SIZE, 0, -CHUNK_SIZE>>] }

\* the values settings.voxel_size is configured with
VoxelSizes == {1, 2}

InitScene ==
    /\ \E place \in [1..NumChunks -> GridPlacements] :
          chunks = [ c \in 1..NumChunks |->
                       [ VoxelChunk_new(place[c].position, Pick(CrossPool(1), 1..7),
                                        place[c].transform)
                           EXCEPT !.voxels = filter_occluded_voxels(@) ] ]
    /\ loaded = [c \in DOMAIN chunks |-> Pick(CrossPool(1), 1..7)]
    /\ filterInput = loaded
    /\ filterCalls = [c \in DOMAIN chunks |-> 1]
    /\ filtered = {}
    /\ contentChanged = DOMAIN chunks
    /\ cameraSeen = FALSE
    /\ debugWas = FALSE
    /\ cameras = <<>>
    /\ \E size \in VoxelSizes :
          settings = [VoxelRenderSettings_default EXCEPT !.voxel_size = size]
    /\ lod_settings = LodSettings_default
    /\ billboards = {}
    /\ commands = NoCommands
    /\ pending = {}
    /\ phase = "idle"
    /\ frame = 0
    /\ panicked = FALSE

NextScene ==
    \/ BeginFrame /\ debugWas' = settings.debug_mode
    \/ update_chunk_visibility
    \/ update_voxel_lod
    \/ apply_occlusion_culling
    \/ update_billboards
    \/ EndFrame

SpecScene == InitScene /\ [][NextScene]_vars

---------------------------------------------------------------------------
(* Claims about filter_occluded_voxels, checked under SpecFilter *)

Range(seq) == { seq[i] : i \in 1..Len(seq) }

\* the integer n with |n| <= |f|/FracDenom < |n| + 1 and the sign of f
TruncTowardZero(f) ==
    CHOOSE n \in (-Abs(f))..Abs(f) :
        /\ Abs(n) * FracDenom <= Abs(f)
        /\ Abs(f) < (Abs(n) + 1) * FracDenom
        /\ n * f >= 0

IntPos(voxel) == [i \in 1..3 |-> TruncTowardZero(voxel.position[i])]

\* the six positions at distance one along one axis
Neighbours(p) ==
    { [p EXCEPT ![axis] = @ + d] : axis \in 1..3, d \in {-1, 1} }

InChunk(p) == \A axis \in 1..3 : 0 <= p[axis] /\ p[axis] < CHUNK_SIZE

\* the indices of the voxels of list that have a neighbour position outside
\* the chunk or not occupied by any voxel of list
ExposedIndices(list) ==
    LET occupied == { IntPos(list[i]) : i \in 1..Len(list) }
    IN  { i \in 1..Len(list) :
            \E q \in Neighbours(IntPos(list[i])) : ~InChunk(q) \/ q \notin occupied }

\* C1: after a call of filter_occluded_voxels the chunk holds exactly the
\* voxels of the input list that have at least one of their six neighbour
\* positions outside [0, CHUNK_SIZE) or unoccupied in the input list (in input
\* order); a voxel with all six neighbours in bounds and occupied is gone.
C1_KeptIffExposed ==
    \A c \in DOMAIN chunks :
        filterCalls[c] >= 1 =>
            chunks[c].voxels = Pick(filterInput[c], ExposedIndices(filterInput[c]))

\* a call removed an enclosed voxel and kept exposed ones
C1_Witness ==
    \E c \in DOMAIN chunks :
        /\ filterCalls[c] = 1
        /\ chunks[c].voxels # <<>>
        /\ Len(chunks[c].voxels) < Len(filterInput[c])

\* C2: filtering an already filtered list leaves it unchanged: from the
\* second call on, the list after the call is the list before it.
C2_Idempotent ==
    \A c \in DOMAIN chunks :
        filterCalls[c] >= 2 => chunks[c].voxels = filterInput[c]

\* a second call on a list from which the first call removed voxels
C2_Witness ==
    \E c \in DOMAIN chunks :
        /\ filterCalls[c] = 2
        /\ Len(filterInput[c]) < Len(loaded[c])
        /\ filterInput[c] # <<>>

\* list is a solid cube of side n with lowest corner (o, o, o): one voxel per
\* cell, at whole coordinates
IsSolidCube(list, n, o) ==
    /\ Len(list) = n * n * n
    /\ \A i \in 1..Len(list) : \A axis \in 1..3 : list[i].position[axis] % FracDenom = 0
    /\ { IntPos(list[i]) : i \in 1..Len(list) }
            = { <<x, y, z>> : x \in o..(o + n - 1), y \in o..(o + n - 1), z \in o..(o + n - 1) }

\* C3: a solid N x N x N cube with N > 2 inside the chunk keeps exactly its
\* surface shell: N^3 - (N-2)^3 voxels stay, and every removed voxel has all
\* coordinates strictly between the cube's minimum and maximum.
C3_CubeShell ==
    \A c \in DOMAIN chunks :
        \A n \in 3..CHUNK_SIZE :
            (filterCalls[c] = 1 /\ Len(loaded[c]) = n * n * n) =>
                \A o \in 0..(CHUNK_SIZE - n) :
                    IsSolidCube(loaded[c], n, o) =>
                        /\ Len(chunks[c].voxels) = n * n * n - (n - 2) * (n - 2) * (n - 2)
                        /\ Range(chunks[c].voxels) \subseteq Range(loaded[c])
                        /\ \A v \in Range(loaded[c]) \ Range(chunks[c].voxels) :
                              \A axis \in 1..3 :
                                  /\ o < IntPos(v)[axis]
                                  /\ IntPos(v)[axis] < o + n - 1

\* the program's own 15-cube has been filtered, and a cube touching the upper
\* chunk faces has been filtered (checked in two states of the same run)
C3_Witness ==
    \E c \in DOMAIN chunks :
        /\ filterCalls[c] = 1
        /\ IsSolidCube(loaded[c], SceneCubeSide, 0)
        /\ Len(chunks[c].voxels) < Len(loaded[c])

---------------------------------------------------------------------------
(* Claims about the frame pipeline, checked under Spec *)

Ran(system) == phase = "update" /\ system \notin pending

\* a chunk the camera-driven systems reach: it has a GlobalTransform
Placed(c) == chunks[c].transform # NoTransform

\* squared distance of chunk c from the only camera
CameraDistance2(c) == length_squared(chunks[c].transform, cameras[1].translation)

\* C4: within a frame the stages run in the order Occlusion Filter,
\* Visibility Classifier, LOD Selector, Billboard Synthesizer: the systems
\* still due are always a tail of that order, so the Billboard Synthesizer
\* never runs while the filter or the classifier of the frame is still due.
C4_StageOrder ==
    phase = "update" =>
        pending \in { Systems,
                      Systems \ {"apply_occlusion_culling"},
                      {"update_voxel_lod", "update_billboards"},
                      {"update_billboards"},
                      {} }

\* C5: at the end of every frame every billboard belongs to a voxel of a
\* chunk whose visible flag is true.
C5_BillboardsOnlyOfVisible ==
    phase = "idle" => \A b \in billboards : chunks[b.chunk].visible

\* C6: the occlusion filter is run on a chunk only in a frame in which the
\* chunk's voxel content changed (insert, remove, bulk load), not in a frame
\* in which only visible or lod_level was written or nothing was written.
C6_FilterOnlyOnContentChange ==
    \A c \in filtered : c \in contentChanged

\* threshold i (from 1) is >= the distance whose square is d2
AtLeastDistance(i, d2) ==
    lod_settings[i].threshold >= 0
        /\ lod_settings[i].threshold * lod_settings[i].threshold >= d2

LodStep == "update_voxel_lod" \in pending /\ "update_voxel_lod" \notin pending'

\* C7: the LOD pass sets lod_level to the index of the first threshold, in
\* sequence order, that is >= the chunk's camera distance; when none is
\* (also for an empty list) lod_level keeps its value, and nothing fails.
C7_FirstThresholdWins ==
    [][ (LodStep /\ Len(cameras) = 1) =>
          /\ panicked' = panicked /\ phase' = phase
          /\ \A c \in DOMAIN chunks : Placed(c) =>
                LET d2 == CameraDistance2(c)
                IN  /\ \A i \in 1..Len(lod_settings) :
                          ( AtLeastDistance(i, d2)
                            /\ \A j \in 1..(i - 1) : ~AtLeastDistance(j, d2) )
                          => chunks'[c].lod_level = i - 1
                    /\ (\A i \in 1..Len(lod_settings) : ~AtLeastDistance(i, d2))
                          => chunks'[c].lod_level = chunks[c].lod_level ]_vars

\* the LOD pass has picked index 1 at distance 10 under the default
\* thresholds, where the later threshold 100 matches too
C7_Witness ==
    /\ Ran("update_voxel_lod")
    /\ Len(cameras) = 1
    /\ lod_settings = LodSettings_default
    /\ \E c \in DOMAIN chunks :
          Placed(c) /\ CameraDistance2(c) = 10 * 10 /\ chunks[c].lod_level = 1

\* C8 as stated: with the default thresholds the LOD pass gives level 0 at
\* distance 10, level 2 at distance 75 and the previous level at distance 500.
C8_DefaultLevels_AsStated ==
    [][ (LodStep /\ Len(cameras) = 1 /\ lod_settings = LodSettings_default) =>
          \A c \in DOMAIN chunks : Placed(c) =>
              /\ CameraDistance2(c) = 10 * 10 => chunks'[c].lod_level = 0
              /\ CameraDistance2(c) = 75 * 75 => chunks'[c].lod_level = 2
              /\ CameraDistance2(c) = 500 * 500
                    => chunks'[c].lod_level = chunks[c].lod_level ]_vars

\* C8 (amended): with the default thresholds the LOD pass gives level 1 at
\* distance 10, level 2 at distance 75 and the previous level at distance 500.
C8_DefaultLevels ==
    [][ (LodStep /\ Len(cameras) = 1 /\ lod_settings = LodSettings_default) =>
          \A c \in DOMAIN chunks : Placed(c) =>
              /\ CameraDistance2(c) = 10 * 10 => chunks'[c].lod_level = 1
              /\ CameraDistance2(c) = 75 * 75 => chunks'[c].lod_level = 2
              /\ CameraDistance2(c) = 500 * 500
                    => chunks'[c].lod_level = chunks[c].lod_level ]_vars

\* the LOD pass has run at distance 500 on a chunk that was at level 2
C8_Witness ==
    /\ Ran("update_voxel_lod")
    /\ Len(cameras) = 1
    /\ lod_settings = LodSettings_default
    /\ \E c \in DOMAIN chunks :
          Placed(c) /\ CameraDistance2(c) = 500 * 500 /\ chunks[c].lod_level = 2

ValidLodIndex(c) == chunks[c].lod_level \in 0..(Len(lod_settings) - 1)

\* C9 as stated: lod_level is a valid index into LodSettings.distances, or
\* is 0 when no camera has ever been present.
C9_LodInRange_AsStated ==
    \A c \in DOMAIN chunks :
        ValidLodIndex(c) \/ (chunks[c].lod_level = 0 /\ ~cameraSeen)

\* C9 (amended): lod_level is a valid index into LodSettings.distances, or
\* is 0 when the threshold list is empty or no camera has ever been present.
C9_LodInRange ==
    \A c \in DOMAIN chunks :
        \/ ValidLodIndex(c)
        \/ chunks[c].lod_level = 0 /\ (lod_settings = <<>> \/ ~cameraSeen)

\* a chunk has reached the last index of a non-empty threshold list
C9_Witness ==
    /\ cameraSeen
    /\ \E c \in DOMAIN chunks :
          chunks[c].lod_level = Len(lod_settings) - 1 /\ chunks[c].lod_level > 0

\* C10: in a frame with no camera or more than one, no chunk's visible flag
\* or lod_level changes.
C10_NoSingleCameraNoChange ==
    [][ (phase = "update" /\ Len(cameras) # 1) =>
          \A c \in DOMAIN chunks :
              /\ chunks'[c].visible = chunks[c].visible
              /\ chunks'[c].lod_level = chunks[c].lod_level ]_vars

\* both passes have run in a frame with two cameras over a placed chunk that
\* an earlier frame had made invisible and moved off level 0
C10_Witness ==
    /\ Ran("update_chunk_visibility") /\ Ran("update_voxel_lod")
    /\ Len(cameras) = 2
    /\ \E c \in DOMAIN chunks :
          Placed(c) /\ ~chunks[c].visible /\ chunks[c].lod_level > 0

\* C11: in a frame with no camera or more than one and debug mode off, the
\* Billboard Synthesizer pass is a silent no-op: it does not fail or abort
\* the program.
C11_BillboardsSilentWithoutCamera ==
    (Len(cameras) # 1 /\ ~settings.debug_mode) => (~panicked /\ phase # "aborted")

\* C12: when a voxel's world position is exactly the camera's position, no
\* billboard is made for that voxel (the other voxels still get theirs), so
\* no billboard with an undefined (NaN) rotation is ever produced.
C12_NoNaNRotation ==
    \A b \in billboards \cup commands.spawn :
        /\ b.rotation # "NaN"
        /\ \A cam \in Range(cameras) :
              b.frame = frame /\ phase = "update"
                  => b.translation # [i \in 1..3 |-> cam.translation[i] * FracDenom]

---------------------------------------------------------------------------
(* Claims about the billboard pass *)

\* the step in which update_billboards runs
BillboardStep ==
    "update_billboards" \in pending /\ "update_billboards" \notin pending'

\* the step that ends a frame by applying the queued commands
EndFrameStep == phase = "update" /\ phase' = "idle"

\* `spawn` holds a billboard for every voxel of every chunk that is visible
CoversVisible(spawn) ==
    \A c \in DOMAIN chunks :
        chunks[c].visible =>
            \A i \in 1..Len(chunks[c].voxels) :
                \E b \in spawn : b.chunk = c /\ b.index = i

\* While debug mode is on, a finished pass leaves no billboard and none
\* appears in the frames that follow with debug mode still on.
DebugLeavesNone ==
    (settings'.debug_mode /\ (phase' = "idle" \/ debugWas')) => billboards' = {}

---------------------------------------------------------------------------
(* Claims about update_chunk_visibility *)

\* the step in which update_chunk_visibility runs
VisibilityStep ==
    "update_chunk_visibility" \in pending /\ "update_chunk_visibility" \notin pending'

\* chunk c is farther from the only camera than render_distance
BeyondRenderDistance(c) ==
    CameraDistance2(c) > settings.render_distance * settings.render_distance

\* C14: with exactly one camera, once the Visibility Classifier has run every
\* chunk farther from the camera than render_distance has visible = false,
\* whatever its clip-space position and its previous visible value.
C14_DistanceCull ==
    [][ (VisibilityStep /\ Len(cameras) = 1) =>
            \A c \in DOMAIN chunks :
                (Placed(c) /\ BeyondRenderDistance(c)) => ~chunks'[c].visible ]_vars

\* a chunk beyond render_distance has been culled although the frustum test
\* on its position passes
C14_Witness ==
    /\ Ran("update_chunk_visibility") /\ Len(cameras) = 1
    /\ \E c \in DOMAIN chunks :
          /\ Placed(c) /\ BeyondRenderDistance(c)
          /\ in_frustum(MatVec(MatMul(cameras[1].projection, compute_matrix(cameras[1])),
                               extend(chunks[c].transform, 1)))
          /\ ~chunks[c].visible

\* the transpose of a 3x3 rotation (its inverse)
Transpose3(r) == [i \in 1..3 |-> [j \in 1..3 |-> r[j][i]]]

\* The view matrix of a camera: the inverse of its world transform, which
\* takes a world position to the camera's frame (x right, y up, looking
\* down -z).
view_matrix(cam) ==
    LET rt == Transpose3(cam.rotation)
    IN  << Append(rt[1], -Dot(rt[1], cam.translation)),
           Append(rt[2], -Dot(rt[2], cam.translation)),
           Append(rt[3], -Dot(rt[3], cam.translation)),
           <<0, 0, 0, 1>> >>

\* the clip-space projection (x, y, z, w) of chunk c's position
ClipSpace(c, cam) ==
    MatVec(MatMul(cam.projection, view_matrix(cam)), extend(chunks[c].transform, 1))

\* w > 0, |x| <= w + radius, |y| <= w + radius and z >= -radius
InsideFrustum(p) ==
    /\ p[4] > 0
    /\ 1000 * Abs(p[1]) <= 1000 * p[4] + 866 * CHUNK_SIZE
    /\ 1000 * Abs(p[2]) <= 1000 * p[4] + 866 * CHUNK_SIZE
    /\ 1000 * p[3] >= -(866 * CHUNK_SIZE)

\* C15: with exactly one camera, the Visibility Classifier sets a chunk within
\* render_distance visible exactly when the clip-space projection of its
\* position passes the frustum test; a chunk behind the camera (w <= 0) is
\* set to not visible.
C15_FrustumTest ==
    [][ (VisibilityStep /\ Len(cameras) = 1) =>
            \A c \in DOMAIN chunks :
                (Placed(c) /\ ~BeyondRenderDistance(c)) =>
                    (chunks'[c].visible <=> InsideFrustum(ClipSpace(c, cameras[1]))) ]_vars

\* C16: the world position given to a voxel's billboard is, on each axis,
\* grid_position * CHUNK_SIZE * voxel_size + local_position * voxel_size,
\* the value VoxelChunk::get_voxel_world_position returns.
C16_BillboardWorldPosition ==
    \A b \in billboards \cup commands.spawn :
        LET chunk == chunks[b.chunk]
            voxel == chunk.voxels[b.index]
        IN  /\ \A i \in 1..3 :
                  b.translation[i] =
                      as_f32(chunk.position[i]) * CHUNK_SIZE * settings.voxel_size
                          + voxel.position[i] * settings.voxel_size
            /\ b.translation = get_voxel_world_position(chunk, voxel, settings.voxel_size)

\* the voxels of the visible chunks, counted
VisibleVoxelCount ==
    LET S[n \in 0..Len(chunks)] ==
            IF n = 0 THEN 0
            ELSE S[n - 1] + (IF chunks[n].visible THEN Len(chunks[n].voxels) ELSE 0)
    IN  S[Len(chunks)]

\* `spawn` holds exactly one billboard, of the voxel's colour, for each voxel
\* of each visible chunk, and nothing else
ExactlyOnePerVisibleVoxel(spawn) ==
    /\ \A b \in spawn :
          /\ b.chunk \in DOMAIN chunks /\ chunks[b.chunk].visible
          /\ b.index \in 1..Len(chunks[b.chunk].voxels)
          /\ b.color = chunks[b.chunk].voxels[b.index].color
    /\ \A c \in DOMAIN chunks :
          chunks[c].visible =>
              \A i \in 1..Len(chunks[c].voxels) :
                  Cardinality({ b \in spawn : b.chunk = c /\ b.index = i }) = 1
    /\ Cardinality(spawn) = VisibleVoxelCount

\* C17: a Billboard Synthesizer pass with debug mode off and exactly one
\* camera replaces the whole billboard set: every earlier billboard is
\* removed, and the set becomes exactly one billboard, of the voxel's colour,
\* per voxel of each chunk the pass finds visible; the count is the sum of
\* the voxel counts of those chunks, so it does not grow from frame to frame.
C17_FullReplacement ==
    [][ /\ (BillboardStep /\ ~settings.debug_mode /\ Len(cameras) = 1) =>
              /\ commands'.despawn = billboards
              /\ ExactlyOnePerVisibleVoxel(commands'.spawn)
        /\ (EndFrameStep /\ ~settings.debug_mode /\ Len(cameras) = 1) =>
              /\ billboards' = commands.spawn
              /\ \A b \in billboards' : b.frame = frame /\ b \notin billboards ]_vars

\* a pass has queued the removal of the previous frame's billboards and one
\* new billboard per voxel of the visible chunks
C17_Witness ==
    /\ Ran("update_billboards") /\ ~settings.debug_mode /\ Len(cameras) = 1
    /\ billboards # {} /\ commands.despawn = billboards
    /\ commands.spawn # {} /\ Cardinality(commands.spawn) = VisibleVoxelCount
    /\ \A b \in billboards : b.frame # frame

---------------------------------------------------------------------------
(* Further claims about filter_occluded_voxels *)

\* no two entries of list have the same truncated integer local position
NoSharedCell(list) ==
    Cardinality({ IntPos(list[i]) : i \in 1..Len(list) }) = Len(list)

\* C18 as stated: once the filter has been applied to a chunk, its voxel list
\* has no two entries with the same truncated integer local position.
C18_NoSharedCell_AsStated ==
    \A c \in DOMAIN chunks : filterCalls[c] >= 1 => NoSharedCell(chunks[c].voxels)

\* C18, amended: if the list the chunk was constructed with has no two
\* entries with the same truncated integer local position, neither has its
\* voxel list after the filter has been applied.
C18_NoSharedCell ==
    \A c \in DOMAIN chunks :
        (filterCalls[c] >= 1 /\ NoSharedCell(loaded[c])) => NoSharedCell(chunks[c].voxels)

\* the filter has removed a voxel from a list without shared cells and has
\* left several
C18_Witness ==
    \E c \in DOMAIN chunks :
        /\ filterCalls[c] >= 1 /\ NoSharedCell(loaded[c])
        /\ Len(chunks[c].voxels) >= 2
        /\ Len(chunks[c].voxels) < Len(loaded[c])

\* the entries of list whose integer local position is outside the chunk
OutOfRange(list) ==
    Pick(list, { i \in 1..Len(list) : ~InChunk(IntPos(list[i])) })

\* C20: a voxel whose integer local position has a coordinate outside
\* [0, CHUNK_SIZE) is kept by filter_occluded_voxels whatever else the chunk
\* holds, and the filter never fails on such positions.
C20_OutOfRangeKept ==
    /\ ~panicked
    /\ \A c \in DOMAIN chunks :
          filterCalls[c] >= 1 => OutOfRange(chunks[c].voxels) = OutOfRange(filterInput[c])

---------------------------------------------------------------------------
(* Claims about what the stages write *)

\* the fields of VoxelChunk
ChunkFields == {"position", "voxels", "bounds", "visible", "lod_level"}

\* the fields of chunk c that the step changes
Written(c) == { f \in ChunkFields : chunks'[c][f] # chunks[c][f] }

\* the step in which `system` runs
StepOf(system) == system \in pending /\ system \notin pending'

\* C19: a stage writes only its own field of a chunk: the Occlusion Filter
\* the voxel list, the Visibility Classifier visible, the LOD Selector
\* lod_level, the Billboard Synthesizer nothing; no step changes a chunk's
\* grid position or bounds.
C19_StagesWriteOwnField ==
    [][ /\ DOMAIN chunks' = DOMAIN chunks
        /\ \A c \in DOMAIN chunks :
              /\ StepOf("apply_occlusion_culling") => Written(c) \subseteq {"voxels"}
              /\ StepOf("update_chunk_visibility") => Written(c) \subseteq {"visible"}
              /\ StepOf("update_voxel_lod") => Written(c) \subseteq {"lod_level"}
              /\ StepOf("update_billboards") => Written(c) = {}
              /\ Written(c) \cap {"position", "bounds"} = {} ]_vars

\* a frame in which every stage has run, the Visibility Classifier has
\* cleared visible and the LOD Selector has set a level
C19_Witness ==
    /\ phase = "update" /\ pending = {} /\ Len(cameras) = 1
    /\ \E c \in DOMAIN chunks :
          /\ ~chunks[c].visible /\ chunks[c].lod_level > 0
          /\ chunks[c].position = Origin
          /\ chunks[c].voxels # <<>>

\* C21: filter_occluded_voxels only removes: the list after a call is the
\* input list with some entries left out (the kept voxels in their input
\* order, each with its position and colour, and no voxel that was not in the
\* input); an empty list stays empty.
C21_OnlyRemoves ==
    \A c \in DOMAIN chunks :
        filterCalls[c] >= 1 =>
            /\ chunks[c].voxels =
                   Pick(filterInput[c],
                        { i \in 1..Len(filterInput[c]) :
                              filterInput[c][i] \in Range(chunks[c].voxels) })
            /\ Len(chunks[c].voxels) <= Len(filterInput[c])
            /\ filterInput[c] = <<>> => chunks[c].voxels = <<>>

\* a call has removed voxels from between kept ones: the first and the last
\* entry of the input are still the first and the last
C21_Witness ==
    \E c \in DOMAIN chunks :
        /\ filterCalls[c] = 1
        /\ Len(chunks[c].voxels) >= 3
        /\ Len(chunks[c].voxels) < Len(filterInput[c])
        /\ chunks[c].voxels[1] = filterInput[c][1]
        /\ chunks[c].voxels[Len(chunks[c].voxels)] = filterInput[c][Len(filterInput[c])]

\* C22: the hash-set filter of voxel.rs and the hash-map filter of
\* render/culling.rs leave the same voxel list for every input list, lists
\* with several voxels in one integer cell included.
C22_SameResult ==
    \A c \in DOMAIN chunks :
        filterCalls[c] >= 1 =>
            chunks[c].voxels = culling_filter_occluded_voxels(filterInput[c])

\* a list with two voxels in one cell has been filtered: voxels were removed
\* and voxels were kept
C22_Witness ==
    \E c \in DOMAIN chunks :
        /\ filterCalls[c] = 1
        /\ ~NoSharedCell(filterInput[c])
        /\ chunks[c].voxels # <<>>
        /\ Len(chunks[c].voxels) + 2 <= Len(filterInput[c])

===========================================================================
